---- MODULE Spec2Model ----
(***************************************************************************)
(* The analyze request pipeline of DEV-DOC-AI:                             *)
(*   src/app/api/analyze/route.ts, POST (first handler of the file,        *)
(*   lines 32-229) together with the module it imports, lib/gemini.        *)
(*                                                                         *)
(* One request goes through: body parsing, URL validation, the outbound    *)
(* fetch (axios), extraction (cheerio), cleaning, the minimum-length       *)
(* check, the summarization call (Gemini) and the response.  Every await   *)
(* of the handler is a position of the request (pc); what the network and  *)
(* the summarization backend answer is chosen by the environment.          *)
(*                                                                         *)
(* Texts are sequences of one-character strings.  A fetched document is    *)
(* the sequence of the element nodes below <body>, each with the selector  *)
(* it matches (kind) and its text.                                         *)
(***************************************************************************)
EXTENDS Integers, Sequences, FiniteSets, TLC

(***************************************************************************)
(* Bounds of the model                                                     *)
(***************************************************************************)
\* largest number of element nodes in a fetched document
MaxNodes == 2

\* the requests handled in one behaviour
Reqs == {"r1"}

\* the requests handled concurrently by one server
ConcReqs == {"r1", "r2"}

\* largest number of submit events of the page in one behaviour
MaxSubmits == 3

\* longest text the cleaning chain is given on its own, and longest tail of
\* the texts that reach the cut of substring
MaxTextLen == 4

(***************************************************************************)
(* Program constants                                                       *)
(***************************************************************************)
\* route.ts:131   content.trim().length > 50
SelectThreshold == 50
\* route.ts:146   cleanContent.length < 50
MinContentLength == 50
\* route.ts:143   .substring(0, 6000)
MaxContentLength == 6000

(***************************************************************************)
(* Characters and texts                                                    *)
(***************************************************************************)
Rep(c, n) == [i \in 1..n |-> c]

\* JavaScript \s restricted to the characters of the model
IsSpace(c) == c \in {" ", "\n", "\t"}

\* the complement of [^\x00-\x7F]
IsAscii(c) == c \notin {"é"}

\* String.prototype.trim
Trim(s) ==
  IF \A i \in 1..Len(s) : IsSpace(s[i]) THEN <<>>
  ELSE LET first == CHOOSE i \in 1..Len(s) :
                       /\ ~IsSpace(s[i])
                       /\ \A j \in 1..(i-1) : IsSpace(s[j])
           last  == CHOOSE i \in 1..Len(s) :
                       /\ ~IsSpace(s[i])
                       /\ \A j \in (i+1)..Len(s) : IsSpace(s[j])
       IN SubSeq(s, first, last)

\* .replace(/\s+/g, ' ') : every maximal run of whitespace becomes one space
CollapseWhitespace(s) ==
  LET marked == [i \in 1..Len(s) |->
                   [c    |-> IF IsSpace(s[i]) THEN " " ELSE s[i],
                    keep |-> ~(IsSpace(s[i]) /\ i > 1 /\ IsSpace(s[i-1]))]]
      kept   == SelectSeq(marked, LAMBDA m : m.keep)
  IN [i \in 1..Len(kept) |-> kept[i].c]

\* the end of the leftmost-longest match of /\n\s*\n/ starting at i, 0 if none
BlankLineEnd(s, i) ==
  IF i > Len(s) \/ s[i] # "\n" THEN 0
  ELSE LET ends == {k \in (i+1)..Len(s) :
                       /\ s[k] = "\n"
                       /\ \A j \in (i+1)..(k-1) : IsSpace(s[j])}
       IN IF ends = {} THEN 0
          ELSE CHOOSE k \in ends : \A m \in ends : m <= k

\* .replace(/\n\s*\n/g, '\n')
RECURSIVE CollapseBlankLinesFrom(_, _)
CollapseBlankLinesFrom(s, i) ==
  IF i > Len(s) THEN <<>>
  ELSE LET e == BlankLineEnd(s, i)
       IN IF e = 0 THEN <<s[i]>> \o CollapseBlankLinesFrom(s, i + 1)
          ELSE <<"\n">> \o CollapseBlankLinesFrom(s, e + 1)

CollapseBlankLines(s) ==
  IF \A i \in 1..Len(s) : s[i] # "\n" THEN s
  ELSE CollapseBlankLinesFrom(s, 1)

\* .replace(/[^\x00-\x7F]/g, '')
StripNonAscii(s) == SelectSeq(s, IsAscii)

\* .substring(0, n)
Substring0(s, n) == IF Len(s) <= n THEN s ELSE SubSeq(s, 1, n)

\* route.ts:138-142, the chain up to and including trim()
Cleaned(mainContent) ==
  CHOOSE t4 \in
    {Trim(t3) : t3 \in
      {StripNonAscii(t2) : t2 \in
        {CollapseBlankLines(t1) : t1 \in
          {CollapseWhitespace(t0) : t0 \in {mainContent}}}}} : TRUE

\* a mutant of CleanContent: substring is applied before trim
CleanContentTrimLast(mainContent) ==
  CHOOSE cleanContent \in
    {Trim(t4) : t4 \in
      {Substring0(t3, MaxContentLength) : t3 \in
        {StripNonAscii(t2) : t2 \in
          {CollapseBlankLines(t1) : t1 \in
            {CollapseWhitespace(t0) : t0 \in {mainContent}}}}}} : TRUE

\* route.ts:138-143, the cleaning chain; t0 .. t4 are the values between
\* the calls, each computed once
CleanContent(mainContent) ==
  CHOOSE cleanContent \in
    {Substring0(t4, MaxContentLength) : t4 \in
      {Trim(t3) : t3 \in
        {StripNonAscii(t2) : t2 \in
          {CollapseBlankLines(t1) : t1 \in
            {CollapseWhitespace(t0) : t0 \in {mainContent}}}}}} : TRUE

(***************************************************************************)
(* Request bodies and URL validation (route.ts:18-30, 36-63)               *)
(***************************************************************************)
\* what `new URL(s)` answers for the URL strings of the model: either it
\* throws (ok = FALSE) or it yields the protocol of the parsed URL
URLParse ==
  [s \in {"https://example.com/docs", "http://example.com/",
          "ftp://example.com/file", "mailto:dev@example.com",
          "example.com/docs", "/docs/intro", ""} |->
     CASE s = "https://example.com/docs" -> [ok |-> TRUE,  protocol |-> "https:"]
       [] s = "http://example.com/"      -> [ok |-> TRUE,  protocol |-> "http:"]
       [] s = "ftp://example.com/file"   -> [ok |-> TRUE,  protocol |-> "ftp:"]
       [] s = "mailto:dev@example.com"   -> [ok |-> TRUE,  protocol |-> "mailto:"]
       [] OTHER                          -> [ok |-> FALSE, protocol |-> ""]]

UrlStrings == DOMAIN URLParse

\* the request bodies: text that is not JSON, or a JSON object whose url
\* member is a string, a number, or absent
Bodies ==
  {[json |-> FALSE, urlType |-> "undefined", url |-> ""]}
    \cup {[json |-> TRUE, urlType |-> "string", url |-> s] : s \in UrlStrings}
    \cup {[json |-> TRUE, urlType |-> t, url |-> ""] : t \in {"number", "undefined"}}

\* z.string().url('Invalid URL format')
ZodStringUrl(b) == b.urlType = "string" /\ URLParse[b.url].ok

\* .refine(url => ['http:', 'https:'].includes(new URL(url).protocol))
ProtocolAllowed(b) ==
  /\ b.urlType = "string"
  /\ URLParse[b.url].ok
  /\ URLParse[b.url].protocol \in {"http:", "https:"}

\* a mutant of RequestSchema: the refinement on the protocol is left out
RequestSchemaNoRefine(b) == ZodStringUrl(b)

\* RequestSchema.safeParse(body).success
RequestSchema(b) == ZodStringUrl(b) /\ ProtocolAllowed(b)

(***************************************************************************)
(* The fetch (route.ts:66-111)                                             *)
(***************************************************************************)
\* the upstream status codes of the model
Statuses == {200, 404, 503}

\* validateStatus: (status) => status >= 200 && status < 400
ValidateStatus(status) == status >= 200 /\ status < 400

\* the axios error object as far as the catch block reads it
AxiosError(hasResponse, hasRequest, status) ==
  [thrown |-> TRUE, response |-> hasResponse, request |-> hasRequest,
   status |-> status]

\* no error was thrown
NoError ==
  [thrown |-> FALSE, response |-> FALSE, request |-> FALSE, status |-> 0]

(***************************************************************************)
(* Responses (NextResponse.json)                                           *)
(***************************************************************************)
NoDetails == [text |-> "", code |-> 0]

\* a body without a metadata member
NoMetadata == [keys |-> {}, url |-> "", contentLength |-> 0]

NoResponse ==
  [status |-> 0, success |-> FALSE, error |-> "", details |-> NoDetails,
   analysis |-> "", content |-> <<>>, url |-> "", metadata |-> NoMetadata]

\* a mutant of ErrorResponse: the status option is left out, NextResponse.json
\* then answers 200
ErrorResponseDefaultStatus(status, error, details, url) ==
  [status |-> 200, success |-> FALSE, error |-> error, details |-> details,
   analysis |-> "", content |-> <<>>, url |-> url, metadata |-> NoMetadata]

\* the error bodies: error, details and, where the code sets it, url
ErrorResponse(status, error, details, url) ==
  [status |-> status, success |-> FALSE, error |-> error, details |-> details,
   analysis |-> "", content |-> <<>>, url |-> url, metadata |-> NoMetadata]

\* route.ts:164-168 and 196-200: metadata has the members url, timestamp
\* and processingTime; keys is the set of its members
Metadata(url) ==
  [keys |-> {"url", "timestamp", "processingTime"}, url |-> url,
   contentLength |-> 0]

\* route.ts:159-171 and 192-201: the success body, sent with status 200
SuccessResponse(analysis, content, url) ==
  [status |-> 200, success |-> TRUE, error |-> "", details |-> NoDetails,
   analysis |-> analysis, content |-> content, url |-> "",
   metadata |-> Metadata(url)]

\* a mutant of FetchErrorResponse: every fetch failure is answered with 500
FetchErrorResponseAll500(err, url, message) ==
  ErrorResponse(500, "Failed to fetch content",
                [text |-> message, code |-> 0], "")

\* a mutant of FetchErrorResponse: the test of fetchError.request is missing
FetchErrorResponseNoRequestTest(err, url, message) ==
  IF err.response
    THEN ErrorResponse(IF err.status # 0 THEN err.status ELSE 500,
                       "Failed to fetch content",
                       [text |-> "HTTP Error", code |-> err.status], url)
    ELSE ErrorResponse(500, "Request setup failed",
                       [text |-> message, code |-> 0], url)

\* route.ts:79-111, the catch block of the fetch
FetchErrorResponse(err, url, message) ==
  IF err.response
    THEN ErrorResponse(IF err.status # 0 THEN err.status ELSE 500,
                       "Failed to fetch content",
                       [text |-> "HTTP Error", code |-> err.status], url)
    ELSE IF err.request
      THEN ErrorResponse(504, "No response received",
                         [text |-> "The target server did not respond",
                          code |-> 0], url)
      ELSE ErrorResponse(500, "Request setup failed",
                         [text |-> message, code |-> 0], url)

(***************************************************************************)
(* Extraction (route.ts:113-135)                                           *)
(***************************************************************************)
\* route.ts:117-119
Denylist ==
  {"script", "style", "noscript", "iframe", "svg", "canvas", "template",
   "nav", "footer", "header", "aside", ".sidebar", ".ads", ".advertisement",
   "#comments", ".related-content"}

\* route.ts:122-126
ContentSelectors ==
  <<"main", "article", ".content", ".documentation",
    ".docs-contents", "#main-content", ".page-content", "body">>

\* $(denylist).remove()
RemoveDenylisted(doc) == SelectSeq(doc, LAMBDA n : n.kind \notin Denylist)

RECURSIVE ConcatTexts(_)
ConcatTexts(nodes) ==
  IF nodes = <<>> THEN <<>>
  ELSE Head(nodes).text \o ConcatTexts(Tail(nodes))

\* $(selector).text(): the texts of all the elements the selector matches,
\* in document order; body matches the element that holds every node
SelectorText(doc, selector) ==
  ConcatTexts(SelectSeq(doc, LAMBDA n : selector = "body" \/ n.kind = selector))

\* content && content.trim().length > 50
Qualifies(content) == content # <<>> /\ Len(Trim(content)) > SelectThreshold

\* a mutant of SelectFrom: the longest qualifying candidate wins
RECURSIVE SelectLongestFrom(_, _)
SelectLongestFrom(doc, i) ==
  IF i > Len(ContentSelectors) THEN <<>>
  ELSE LET content == SelectorText(doc, ContentSelectors[i])
           rest    == SelectLongestFrom(doc, i + 1)
       IN IF Qualifies(content) /\ Len(content) >= Len(rest)
            THEN content ELSE rest

\* a mutant of SelectFrom: a candidate is taken only when its cleaned text
\* has the minimum length
RECURSIVE SelectCleanEnoughFrom(_, _)
SelectCleanEnoughFrom(doc, i) ==
  IF i > Len(ContentSelectors) THEN <<>>
  ELSE LET content == SelectorText(doc, ContentSelectors[i])
       IN IF Qualifies(content) /\ Len(CleanContent(content)) >= MinContentLength
            THEN content ELSE SelectCleanEnoughFrom(doc, i + 1)

\* route.ts:128-135, the loop over contentSelectors from index i on
RECURSIVE SelectFrom(_, _)
SelectFrom(doc, i) ==
  IF i > Len(ContentSelectors) THEN <<>>
  ELSE LET content == SelectorText(doc, ContentSelectors[i])
       IN IF Qualifies(content) THEN content ELSE SelectFrom(doc, i + 1)

\* let mainContent = ''; for (const selector of contentSelectors) ...
SelectMainContent(doc) == SelectFrom(doc, 1)

\* a mutant of Insufficient: the comparison can never be met
InsufficientNever(cleanContent) == Len(cleanContent) < 0

\* route.ts:146   if (cleanContent.length < 50)
Insufficient(cleanContent) == Len(cleanContent) < MinContentLength

(***************************************************************************)
(* lib/gemini: the summarization model, built when the module is loaded    *)
(***************************************************************************)
\* validateApiKey / createGeminiModel: a missing key makes the module throw
\* while it is evaluated; with a key the exported model is an object
CreateGeminiModel(key) == IF key THEN "model" ELSE "threw"

\* route.ts:162, the analysis of the response sent when `model` is falsy
Placeholder == "AI analysis unavailable"

(***************************************************************************)
(* The documents the environment serves                                    *)
(***************************************************************************)
NodeKinds == {"main", "article", "p", "nav"}

NodeTexts ==
  { <<>>,
    Rep("a", 2),
    Rep("a", 50),
    Rep("b", 51),
    <<" ", "\n">> \o Rep("a", 51) \o <<"\n", "\n">>,
    Rep("a", 46) \o Rep(" ", 4) \o Rep("a", 2),
    Rep("a", 49) \o Rep("é", 2) }

Nodes == [kind : NodeKinds, text : NodeTexts]

HtmlDocuments == UNION {[1..n -> Nodes] : n \in 0..MaxNodes}

\* a body that is not HTML is loaded by cheerio as one text node
PlainDocuments == {<<[kind |-> "#text", text |-> t]>> : t \in NodeTexts}

\* axios parses a body that is JSON: response.data is then an object, which
\* holds no element and no text
JsonDocuments == {<<>>}

ContentTypes == {"text/html", "text/plain", "application/json"}

\* everything a host may answer with, by content type
Documents ==
  [ct \in ContentTypes |->
     CASE ct = "text/html"  -> HtmlDocuments
       [] ct = "text/plain" -> PlainDocuments
       [] OTHER             -> JsonDocuments]

\* the hosts of the liveness specification: pages of one main element, and
\* plain text
LiveDocuments ==
  [ct \in ContentTypes |->
     CASE ct = "text/html" ->
            {<<[kind |-> "main", text |-> t]>> : t \in NodeTexts}
       [] ct = "text/plain" -> PlainDocuments
       [] OTHER             -> JsonDocuments]

NoFetch == [status |-> 0, contentType |-> "", data |-> <<>>]

(***************************************************************************)
(* State                                                                   *)
(***************************************************************************)
VARIABLES
  apiKey,        \* process.env.NEXT_PUBLIC_GEMINI_API_KEY is set
  model,         \* the export of lib/gemini: "model", or "threw" at import
  pc,            \* where each request stands
  auth,          \* the request carries an Authorization: Bearer header
  body,          \* the request body
  url,           \* validationResult.data.url
  target,        \* how the fetched host behaves
  response,      \* the resolved axios response
  fetchError,    \* the error axios rejected with
  mainContent,   \* route.ts:128
  cleanContent,  \* route.ts:138
  backend,       \* how the summarization backend behaves
  generation,    \* how model.generateContent settled
  resp,          \* the response of the handler
  fetchCalls,    \* number of axios.get calls made for the request
  loads,         \* number of cheerio.load calls that returned a document
  generateCalls, \* number of model.generateContent calls made for the request
  unexpected,    \* an exception of the request reached the outer catch
  normPc,        \* the cleaning chain applied on its own: what was computed
  normInput,     \*   the text it is given
  normOnce,      \*   the chain applied to normInput
  normTwice,     \*   the chain applied to normOnce
  currentUser,       \* auth.currentUser of the browser: "none" or "user"
  reported,          \* what the auth observer has reported to AuthGuard
  guardLoading,      \* AuthGuard.tsx:14
  guardUser,         \* AuthGuard.tsx:13
  homeAnalysis,      \* page.tsx:14      analysis
  homeDocContent,    \* page.tsx:15      docContent
  uploaderUrl,       \* DocUploader.tsx:14   url
  uploaderLoading,   \* DocUploader.tsx:15   loading
  uploaderCalls,     \* the calls of /api/analyze that have not settled
  chatQuestion,      \* ChatInterface.tsx:19   question
  chatLoading,       \* ChatInterface.tsx:20   loading
  chatHistory,       \* ChatInterface.tsx:21   chatHistory
  chatCalls,         \* the calls of /api/chat that have not settled
  submits            \* number of submit events of the two forms

vars ==
  <<apiKey, model, pc, auth, body, url, target, response, fetchError,
    mainContent, cleanContent, backend, generation, resp, fetchCalls, loads,
    generateCalls, unexpected, normPc, normInput, normOnce, normTwice,
    currentUser, reported, guardLoading, guardUser, homeAnalysis,
    homeDocContent, uploaderUrl, uploaderLoading, uploaderCalls, chatQuestion,
    chatLoading, chatHistory, chatCalls, submits>>

reqVars ==
  <<auth, body, url, target, response, fetchError, mainContent, cleanContent,
    backend, generation, resp, fetchCalls, loads, generateCalls, unexpected>>

normVars == <<normPc, normInput, normOnce, normTwice>>

\* the state of the browser page
uiVars ==
  <<currentUser, reported, guardLoading, guardUser, homeAnalysis,
    homeDocContent, uploaderUrl, uploaderLoading, uploaderCalls, chatQuestion,
    chatLoading, chatHistory, chatCalls, submits>>

\* the state when the server is up and the requests reqs are yet to arrive
HandlerInit(reqs) ==
  /\ apiKey \in BOOLEAN
  /\ model = CreateGeminiModel(apiKey)
  /\ pc = [r \in reqs |-> "idle"]
  /\ auth = [r \in reqs |-> FALSE]
  /\ body = [r \in reqs |-> [json |-> FALSE, urlType |-> "undefined", url |-> ""]]
  /\ url = [r \in reqs |-> ""]
  /\ target = [r \in reqs |-> "none"]
  /\ response = [r \in reqs |-> NoFetch]
  /\ fetchError = [r \in reqs |-> NoError]
  /\ mainContent = [r \in reqs |-> <<>>]
  /\ cleanContent = [r \in reqs |-> <<>>]
  /\ backend = [r \in reqs |-> "none"]
  /\ generation = [r \in reqs |-> "none"]
  /\ resp = [r \in reqs |-> NoResponse]
  /\ fetchCalls = [r \in reqs |-> 0]
  /\ loads = [r \in reqs |-> 0]
  /\ generateCalls = [r \in reqs |-> 0]
  /\ unexpected = [r \in reqs |-> FALSE]

\* the cleaning chain is not run on its own
NormOff ==
  /\ normPc = "off"
  /\ normInput = <<>>
  /\ normOnce = <<>>
  /\ normTwice = <<>>

\* the page as it is first rendered: useState(''), useState(false),
\* useState([]), AuthGuard with user null and loading true; nobody is
\* signed in and the auth observer has not called back
UiInit ==
  /\ currentUser = "none"
  /\ reported = [once |-> FALSE, last |-> "none"]
  /\ guardLoading = TRUE
  /\ guardUser = "none"
  /\ homeAnalysis = ""
  /\ homeDocContent = <<>>
  /\ uploaderUrl = ""
  /\ uploaderLoading = FALSE
  /\ uploaderCalls = {}
  /\ chatQuestion = <<>>
  /\ chatLoading = FALSE
  /\ chatHistory = <<>>
  /\ chatCalls = {}
  /\ submits = 0

Init == HandlerInit(Reqs) /\ NormOff /\ UiInit

(***************************************************************************)
(* Arrival of a request                                                    *)
(***************************************************************************)
\* a request arrives
Receive(r) ==
  /\ pc[r] = "idle"
  /\ \E a \in BOOLEAN, b \in Bodies :
       /\ auth' = [auth EXCEPT ![r] = a]
       /\ body' = [body EXCEPT ![r] = b]
  /\ pc' = [pc EXCEPT ![r] = "received"]
  /\ UNCHANGED <<uiVars, apiKey, model, unexpected, normPc, normInput, normOnce,
                 normTwice, url, target, response, fetchError, mainContent,
                 cleanContent, backend, generation, resp, fetchCalls, loads,
                 generateCalls>>

\* the module threw while it was evaluated: POST is not defined, the
\* framework answers for it
RouteUnavailable(r) ==
  /\ pc[r] = "received"
  /\ model = "threw"
  /\ resp' = [resp EXCEPT ![r] =
       ErrorResponse(500, "Missing Gemini API key", NoDetails, "")]
  /\ pc' = [pc EXCEPT ![r] = "done"]
  /\ UNCHANGED <<uiVars, apiKey, model, unexpected, normPc, normInput, normOnce,
                 normTwice, auth, body, url, target, response, fetchError,
                 mainContent, cleanContent, backend, generation, fetchCalls,
                 loads, generateCalls>>

(***************************************************************************)
(* POST, route.ts:32-229                                                   *)
(***************************************************************************)
\* a mutant of ParseBody: the rejection of req.json() is not caught apart,
\* the body goes on to validation as undefined
ParseBodyUnchecked(r) ==
  /\ pc[r] = "received"
  /\ model = "model"
  /\ pc' = [pc EXCEPT ![r] = "validating"]
  /\ UNCHANGED <<uiVars, apiKey, model, unexpected, normPc, normInput, normOnce,
                 normTwice, auth, body, url, target, response, fetchError,
                 mainContent, cleanContent, backend, generation, resp,
                 fetchCalls, loads, generateCalls>>

\* route.ts:36-49   body = await req.json()
ParseBody(r) ==
  /\ pc[r] = "received"
  /\ model = "model"
  /\ IF body[r].json
       THEN /\ pc' = [pc EXCEPT ![r] = "validating"]
            /\ UNCHANGED resp
       ELSE /\ resp' = [resp EXCEPT ![r] =
                 ErrorResponse(400, "Invalid request body",
                               [text |-> "parseError", code |-> 0], "")]
            /\ pc' = [pc EXCEPT ![r] = "done"]
  /\ UNCHANGED <<uiVars, apiKey, model, unexpected, normPc, normInput, normOnce,
                 normTwice, auth, body, url, target, response, fetchError,
                 mainContent, cleanContent, backend, generation, fetchCalls,
                 loads, generateCalls>>

\* route.ts:51-78   safeParse, then axios.get(url, ...) is called
Validate(r) ==
  /\ pc[r] = "validating"
  /\ IF RequestSchema(body[r])
       THEN /\ url' = [url EXCEPT ![r] = body[r].url]
            /\ fetchCalls' = [fetchCalls EXCEPT ![r] = @ + 1]
            /\ \E t \in {"answers", "silent", "unreachable", "unsendable"} :
                 target' = [target EXCEPT ![r] = t]
            /\ pc' = [pc EXCEPT ![r] = "fetching"]
            /\ UNCHANGED resp
       ELSE /\ resp' = [resp EXCEPT ![r] =
                 ErrorResponse(400, "URL Validation Failed",
                               [text |-> "validationResult.error.errors",
                                code |-> 0], "")]
            /\ pc' = [pc EXCEPT ![r] = "done"]
            /\ UNCHANGED <<url, fetchCalls, target>>
  /\ UNCHANGED <<uiVars, apiKey, model, unexpected, normPc, normInput, normOnce,
                 normTwice, auth, body, response, fetchError, mainContent,
                 cleanContent, backend, generation, loads, generateCalls>>

\* a mutant of FetchFails: the first failure makes the fetch be tried again
FetchFailsRetry(r, err, message) ==
  IF fetchCalls[r] < 2
    THEN /\ fetchCalls' = [fetchCalls EXCEPT ![r] = @ + 1]
         /\ UNCHANGED <<uiVars, apiKey, model, unexpected, normPc, normInput, normOnce,
                        normTwice, pc, auth, body, url, target, response,
                        fetchError, mainContent, cleanContent, backend,
                        generation, resp, loads, generateCalls>>
    ELSE /\ fetchError' = [fetchError EXCEPT ![r] = err]
         /\ resp' = [resp EXCEPT ![r] = FetchErrorResponse(err, url[r], message)]
         /\ pc' = [pc EXCEPT ![r] = "done"]
         /\ UNCHANGED <<uiVars, apiKey, model, unexpected, normPc, normInput, normOnce,
                        normTwice, auth, body, url, target, response,
                        mainContent, cleanContent, backend, generation,
                        fetchCalls, loads, generateCalls>>

\* the catch block of the fetch answers the request
FetchFails(r, err, message) ==
  /\ fetchError' = [fetchError EXCEPT ![r] = err]
  /\ resp' = [resp EXCEPT ![r] = FetchErrorResponse(err, url[r], message)]
  /\ pc' = [pc EXCEPT ![r] = "done"]
  /\ UNCHANGED <<uiVars, apiKey, model, unexpected, normPc, normInput, normOnce,
                 normTwice, auth, body, url, target, response, mainContent,
                 cleanContent, backend, generation, fetchCalls, loads,
                 generateCalls>>

\* the target answers with a status and, from the documents it serves, a
\* body: axios resolves when validateStatus accepts the status, and rejects
\* with error.response set otherwise
FetchAnswered(r, served) ==
  /\ pc[r] = "fetching"
  /\ target[r] = "answers"
  /\ \E status \in Statuses :
       IF ValidateStatus(status)
         THEN /\ \E ct \in ContentTypes : \E d \in served[ct] :
                   response' = [response EXCEPT ![r] =
                     [status |-> status, contentType |-> ct, data |-> d]]
              /\ pc' = [pc EXCEPT ![r] = "extracting"]
              /\ UNCHANGED <<uiVars, apiKey, model, unexpected, normPc, normInput, normOnce,
                 normTwice, auth, body, url, target, fetchError,
                             mainContent, cleanContent, backend, generation,
                             resp, fetchCalls, loads, generateCalls>>
         ELSE FetchFails(r, AxiosError(TRUE, TRUE, status),
                         "Request failed with status code")

\* timeout: 20000 - no answer in time, axios aborts the request and rejects
\* with an error that has a request and no response
FetchTimeout(r) ==
  /\ pc[r] = "fetching"
  /\ target[r] \in {"answers", "silent"}
  /\ FetchFails(r, AxiosError(FALSE, TRUE, 0), "timeout of 20000ms exceeded")

\* connection failure, or more than maxRedirects redirects: a request was
\* made and no response is attached to the error
FetchNoResponse(r) ==
  /\ pc[r] = "fetching"
  /\ target[r] = "unreachable"
  /\ FetchFails(r, AxiosError(FALSE, TRUE, 0), "Network Error")

\* the request could not be set up: neither request nor response
FetchSetupFails(r) ==
  /\ pc[r] = "fetching"
  /\ target[r] = "unsendable"
  /\ FetchFails(r, AxiosError(FALSE, FALSE, 0), "setup")

\* a mutant of Extract: the cleaning chain is skipped
ExtractSkipsCleaning(r) ==
  /\ pc[r] = "extracting"
  /\ loads' = [loads EXCEPT ![r] = @ + 1]
  /\ mainContent' = [mainContent EXCEPT ![r] =
       SelectMainContent(RemoveDenylisted(response[r].data))]
  /\ cleanContent' = [cleanContent EXCEPT ![r] = mainContent'[r]]
  /\ pc' = [pc EXCEPT ![r] = "checking"]
  /\ UNCHANGED <<uiVars, apiKey, model, unexpected, normPc, normInput, normOnce,
                 normTwice, auth, body, url, target, response, fetchError,
                 backend, generation, resp, fetchCalls, generateCalls>>

\* route.ts:113-135   cheerio.load, the denylist is removed, the selector loop
Extract(r) ==
  /\ pc[r] = "extracting"
  /\ loads' = [loads EXCEPT ![r] = @ + 1]
  /\ mainContent' = [mainContent EXCEPT ![r] =
       SelectMainContent(RemoveDenylisted(response[r].data))]
  /\ pc' = [pc EXCEPT ![r] = "normalizing"]
  /\ UNCHANGED <<uiVars, apiKey, model, unexpected, normPc, normInput, normOnce,
                 normTwice, auth, body, url, target, response, fetchError,
                 cleanContent, backend, generation, resp, fetchCalls,
                 generateCalls>>

\* a mutant of ExtractThrows: there is no outer try, the exception leaves
\* POST and the request is left without the handler's response
ExtractThrowsEscapes(r) ==
  /\ pc[r] = "extracting"
  /\ response[r].contentType = "application/json"
  /\ unexpected' = [unexpected EXCEPT ![r] = TRUE]
  /\ pc' = [pc EXCEPT ![r] = "done"]
  /\ UNCHANGED <<uiVars, apiKey, model, normPc, normInput, normOnce, normTwice, auth,
                 body, url, target, response, fetchError, mainContent,
                 cleanContent, backend, generation, resp, fetchCalls, loads,
                 generateCalls>>

\* route.ts:217-228   the outer catch.  cheerio.load is declared for markup;
\* handed the object of a JSON body it either treats it as an empty
\* document (Extract) or throws, and the exception is caught here
ExtractThrows(r) ==
  /\ pc[r] = "extracting"
  /\ response[r].contentType = "application/json"
  /\ unexpected' = [unexpected EXCEPT ![r] = TRUE]
  /\ resp' = [resp EXCEPT ![r] =
       ErrorResponse(500, "Internal server error",
                     [text |-> "unexpectedError.message", code |-> 0], "")]
  /\ pc' = [pc EXCEPT ![r] = "done"]
  /\ UNCHANGED <<uiVars, apiKey, model, normPc, normInput, normOnce, normTwice, auth,
                 body, url, target, response, fetchError, mainContent,
                 cleanContent, backend, generation, fetchCalls, loads,
                 generateCalls>>

\* a mutant of Normalize: cleanContent is one binding of the module, which
\* every request in flight reads
NormalizeShared(r) ==
  /\ pc[r] = "normalizing"
  /\ cleanContent' = [q \in DOMAIN cleanContent |-> CleanContent(mainContent[r])]
  /\ pc' = [pc EXCEPT ![r] = "checking"]
  /\ UNCHANGED <<uiVars, apiKey, model, unexpected, normPc, normInput, normOnce,
                 normTwice, auth, body, url, target, response, fetchError,
                 mainContent, backend, generation, resp, fetchCalls, loads,
                 generateCalls>>

\* route.ts:137-143
Normalize(r) ==
  /\ pc[r] = "normalizing"
  /\ cleanContent' = [cleanContent EXCEPT ![r] = CleanContent(mainContent[r])]
  /\ pc' = [pc EXCEPT ![r] = "checking"]
  /\ UNCHANGED <<uiVars, apiKey, model, unexpected, normPc, normInput, normOnce,
                 normTwice, auth, body, url, target, response, fetchError,
                 mainContent, backend, generation, resp, fetchCalls, loads,
                 generateCalls>>

\* route.ts:145-189   the minimum-length check, the test of `model`, and the
\* call of model.generateContent(prompt)
CheckContent(r) ==
  /\ pc[r] = "checking"
  /\ IF Insufficient(cleanContent[r])
       THEN /\ resp' = [resp EXCEPT ![r] =
                 ErrorResponse(422, "Insufficient content",
                               [text |-> "Unable to extract meaningful text",
                                code |-> 0], url[r])]
            /\ pc' = [pc EXCEPT ![r] = "done"]
            /\ UNCHANGED <<backend, generateCalls>>
       ELSE IF model # "model"
         THEN /\ resp' = [resp EXCEPT ![r] =
                   SuccessResponse(Placeholder, cleanContent[r], url[r])]
              /\ pc' = [pc EXCEPT ![r] = "done"]
              /\ UNCHANGED <<backend, generateCalls>>
         ELSE /\ generateCalls' = [generateCalls EXCEPT ![r] = @ + 1]
              /\ \E b \in {"answers", "hangs"} :
                   backend' = [backend EXCEPT ![r] = b]
              /\ pc' = [pc EXCEPT ![r] = "summarizing"]
              /\ UNCHANGED resp
  /\ UNCHANGED <<uiVars, apiKey, model, unexpected, normPc, normInput, normOnce,
                 normTwice, auth, body, url, target, response, fetchError,
                 mainContent, cleanContent, generation, fetchCalls, loads>>

\* route.ts:189-201   generateContent resolved and response.text() returned
GenerateResolves(r) ==
  /\ pc[r] = "summarizing"
  /\ backend[r] = "answers"
  /\ generation' = [generation EXCEPT ![r] = "resolved"]
  /\ resp' = [resp EXCEPT ![r] =
       SuccessResponse("generated", cleanContent[r], url[r])]
  /\ pc' = [pc EXCEPT ![r] = "done"]
  /\ UNCHANGED <<uiVars, apiKey, model, unexpected, normPc, normInput, normOnce,
                 normTwice, auth, body, url, target, response, fetchError,
                 mainContent, cleanContent, backend, fetchCalls, loads,
                 generateCalls>>

\* route.ts:203-215   generateContent rejected, or response.text() threw
GenerateRejects(r) ==
  /\ pc[r] = "summarizing"
  /\ backend[r] = "answers"
  /\ generation' = [generation EXCEPT ![r] = "rejected"]
  /\ resp' = [resp EXCEPT ![r] =
       ErrorResponse(500, "Analysis failed",
                     [text |-> "analysisError.message", code |-> 0], url[r])]
  /\ pc' = [pc EXCEPT ![r] = "done"]
  /\ UNCHANGED <<uiVars, apiKey, model, unexpected, normPc, normInput, normOnce,
                 normTwice, auth, body, url, target, response, fetchError,
                 mainContent, cleanContent, backend, fetchCalls, loads,
                 generateCalls>>

(***************************************************************************)
(* Specifications                                                          *)
(***************************************************************************)
\* what the event loop runs without waiting for anybody: the continuations
\* of the handler, and the errors axios raises by itself (its timeout timer,
\* a connection failure, a request that cannot be set up)
Scheduled(r) ==
  \/ RouteUnavailable(r)
  \/ ParseBody(r)
  \/ Validate(r)
  \/ FetchTimeout(r)
  \/ FetchNoResponse(r)
  \/ FetchSetupFails(r)
  \/ Extract(r)
  \/ ExtractThrows(r)
  \/ Normalize(r)
  \/ CheckContent(r)

Steps(reqs, served) ==
  \/ \E r \in reqs : Receive(r)
  \/ \E r \in reqs : RouteUnavailable(r)
  \/ \E r \in reqs : ParseBody(r)
  \/ \E r \in reqs : Validate(r)
  \/ \E r \in reqs : FetchAnswered(r, served)
  \/ \E r \in reqs : FetchTimeout(r)
  \/ \E r \in reqs : FetchNoResponse(r)
  \/ \E r \in reqs : FetchSetupFails(r)
  \/ \E r \in reqs : Extract(r)
  \/ \E r \in reqs : ExtractThrows(r)
  \/ \E r \in reqs : Normalize(r)
  \/ \E r \in reqs : CheckContent(r)
  \/ \E r \in reqs : GenerateResolves(r)
  \/ \E r \in reqs : GenerateRejects(r)

Next == Steps(Reqs, Documents)

Spec == Init /\ [][Next]_vars

LiveNext == Steps(Reqs, LiveDocuments)

\* The event loop runs every continuation that is ready and a timer that
\* was armed fires: Scheduled is weakly fair.  Nothing obliges the fetched
\* host or the summarization backend to answer.
LiveSpec ==
  Init /\ [][LiveNext]_vars /\ \A r \in Reqs : WF_vars(Scheduled(r))

\* two requests are handled by one server, their steps interleaved in any
\* order; the hosts serve the documents of the liveness specification
ConcInit == HandlerInit(ConcReqs) /\ NormOff /\ UiInit

ConcNext == Steps(ConcReqs, LiveDocuments)

ConcSpec == ConcInit /\ [][ConcNext]_vars

\* pages built from content and from what a denylist is for: navigation, a
\* script, a cookie banner; the texts tell the nodes apart
DenyKinds == {"main", "p", "nav", "script", ".cookie-banner"}

DenyTexts == {Rep("a", 51), Rep("b", 2)}

DenyDocuments ==
  [ct \in ContentTypes |->
     CASE ct = "text/html" ->
            UNION {[1..n -> [kind : DenyKinds, text : DenyTexts]] :
                     n \in 0..MaxNodes}
       [] ct = "text/plain" -> PlainDocuments
       [] OTHER             -> JsonDocuments]

DenyNext == Steps(Reqs, DenyDocuments)

DenySpec == Init /\ [][DenyNext]_vars

(***************************************************************************)
(* The cleaning chain on its own                                           *)
(***************************************************************************)
NormChars == {"a", " ", "\n", "é"}

\* every text of at most MaxTextLen characters
ShortTexts == UNION {[1..n -> NormChars] : n \in 0..MaxTextLen}

\* the lengths of the run of letters a text starts with: none, one, and
\* two less than the cut of substring
LetterRuns == {0, 1, MaxContentLength - 2}

\* a run of letters, then a short text: the long ones reach the cut
NormTexts == {Rep("a", n) \o t : n \in LetterRuns, t \in ShortTexts}

NormInit ==
  /\ HandlerInit(Reqs)
  /\ apiKey
  /\ normPc = "input"
  /\ normInput \in NormTexts
  /\ normOnce = <<>>
  /\ normTwice = <<>>
  /\ UiInit

\* cleanContent = mainContent.replace(...)...substring(0, 6000)
NormalizeOnce ==
  /\ normPc = "input"
  /\ normOnce' = CleanContent(normInput)
  /\ normPc' = "once"
  /\ UNCHANGED <<uiVars, apiKey, model, pc, reqVars, normInput, normTwice>>

\* the chain applied to its own result
NormalizeTwice ==
  /\ normPc = "once"
  /\ normTwice' = CleanContent(normOnce)
  /\ normPc' = "twice"
  /\ UNCHANGED <<uiVars, apiKey, model, pc, reqVars, normInput, normOnce>>

NormNext == NormalizeOnce \/ NormalizeTwice

NormSpec == NormInit /\ [][NormNext]_vars

(***************************************************************************)
(* The page: AuthGuard, Home, DocUploader, ChatInterface                   *)
(***************************************************************************)
\* everything of the server and of the cleaning chain on its own
serverVars == <<apiKey, model, pc, reqVars, normVars>>

\* a mutant of GuardView: the test of user is missing
GuardViewNoUserTest(loading, user) ==
  IF loading THEN "spinner" ELSE "children"

\* AuthGuard.tsx:34-143   what AuthGuard returns
GuardView(loading, user) ==
  IF loading THEN "spinner"
  ELSE IF user = "none" THEN "sign-in page"
  ELSE "children"

\* Home, and with it DocUploader, is rendered
ChildrenRendered == GuardView(guardLoading, guardUser) = "children"

\* page.tsx:36-40   {docContent && <ChatInterface .../>}
ChatMounted == ChildrenRendered /\ homeDocContent # <<>>

\* the urls typed into the form
UiUrls == {"https://example.com/docs", "http://example.com/"}

\* what the server extracts and generates for a url: the content has at
\* least the minimum length (route.ts:146)
ContentOf(u) ==
  IF u = "https://example.com/docs"
    THEN Rep("a", MinContentLength) ELSE Rep("b", MinContentLength + 1)

AnalysisOf(u) ==
  IF u = "https://example.com/docs"
    THEN "analysis of https://example.com/docs"
    ELSE "analysis of http://example.com/"

\* how the call of /api/analyze for url u settles: response.json() yields a
\* success body (the generated text may be empty) or an error body, or it
\* throws on a body that is not JSON, or fetch or getIdToken throws
AnalyzeOutcomes(u) ==
  {[kind |-> "json", data |-> SuccessResponse(AnalysisOf(u), ContentOf(u), u)],
   [kind |-> "json", data |-> SuccessResponse("", ContentOf(u), u)],
   [kind |-> "json",
    data |-> ErrorResponse(422, "Insufficient content",
                           [text |-> "Unable to extract meaningful text",
                            code |-> 0], u)],
   [kind |-> "not json", data |-> NoResponse],
   [kind |-> "throws", data |-> NoResponse]}

\* how the call of /api/chat settles
ChatOutcomes == {"success", "error body", "not json", "throws"}

\* a mutant of HandleAnalysis: setDocContent is not called
HandleAnalysisOnly(result, analysis, docContent) ==
  IF result.success /\ result.analysis # ""
    THEN [analysis |-> result.analysis, docContent |-> docContent]
    ELSE [analysis |-> analysis, docContent |-> docContent]

\* page.tsx:17-24   the new values of analysis and docContent
HandleAnalysis(result, analysis, docContent) ==
  IF result.success /\ result.analysis # ""
    THEN [analysis   |-> result.analysis,
          docContent |-> IF result.content # <<>>
                           THEN result.content ELSE docContent]
    ELSE [analysis |-> analysis, docContent |-> docContent]

\* a mutant of CanSubmit: the button is disabled only while the value is empty
CanSubmitWhileLoading(loading, empty) == ~empty

\* DocUploader.tsx:76-83, ChatInterface.tsx:148-152: the input and the
\* button are disabled while loading, the button also while the value is
\* empty
CanSubmit(loading, empty) == ~(loading \/ empty)

\* the texts typed as a question
Questions == {<<>>, <<" ">>, <<"q">>}

\* a mutant of ChatAnswer: an error is answered by asking again
ChatAnswerAsksAgain(outcome) ==
  IF outcome = "success"
    THEN [type |-> "answer", content |-> <<"data.response">>]
    ELSE [type |-> "question", content |-> <<"q">>]

\* ChatInterface.tsx:62-84   the entry added when the call settles
ChatAnswer(outcome) ==
  IF outcome = "success"
    THEN [type |-> "answer", content |-> <<"data.response">>]
    ELSE [type |-> "answer",
          content |-> <<"Sorry, I encountered an error processing your question. Please try again.">>]

\* signInWithPopup resolved
SignIn ==
  /\ currentUser = "none"
  /\ currentUser' = "user"
  /\ UNCHANGED <<serverVars, reported, guardLoading, guardUser, homeAnalysis,
                 homeDocContent, uploaderUrl, uploaderLoading, uploaderCalls,
                 chatQuestion, chatLoading, chatHistory, chatCalls, submits>>

\* the user signs out, here or in another tab
SignOut ==
  /\ currentUser = "user"
  /\ currentUser' = "none"
  /\ UNCHANGED <<serverVars, reported, guardLoading, guardUser, homeAnalysis,
                 homeDocContent, uploaderUrl, uploaderLoading, uploaderCalls,
                 chatQuestion, chatLoading, chatHistory, chatCalls, submits>>

\* AuthGuard.tsx:17-20   the observer calls back with the current user.
\* When AuthGuard stops returning its children, DocUploader and
\* ChatInterface are unmounted: their state is dropped and the calls they
\* still wait for no longer belong to a mounted component (live = FALSE)
AuthCallback ==
  /\ ~reported.once \/ reported.last # currentUser
  /\ reported' = [once |-> TRUE, last |-> currentUser]
  /\ guardUser' = currentUser
  /\ guardLoading' = FALSE
  /\ IF ChildrenRendered /\ GuardView(FALSE, currentUser) # "children"
       THEN /\ uploaderUrl' = ""
            /\ uploaderLoading' = FALSE
            /\ uploaderCalls' = {[c EXCEPT !.live = FALSE] : c \in uploaderCalls}
            /\ chatQuestion' = <<>>
            /\ chatLoading' = FALSE
            /\ chatHistory' = <<>>
            /\ chatCalls' = {[c EXCEPT !.live = FALSE] : c \in chatCalls}
       ELSE UNCHANGED <<uploaderUrl, uploaderLoading, uploaderCalls,
                        chatQuestion, chatLoading, chatHistory, chatCalls>>
  /\ UNCHANGED <<serverVars, currentUser, homeAnalysis, homeDocContent, submits>>

\* DocUploader.tsx:72   onChange of the input
TypeUrl(u) ==
  /\ ChildrenRendered
  /\ ~uploaderLoading
  /\ uploaderUrl # u
  /\ uploaderUrl' = u
  /\ UNCHANGED <<serverVars, currentUser, reported, guardLoading, guardUser,
                 homeAnalysis, homeDocContent, uploaderLoading, uploaderCalls,
                 chatQuestion, chatLoading, chatHistory, chatCalls, submits>>

\* DocUploader.tsx:17-38   handleSubmit up to the call of fetch
SubmitAnalyze ==
  /\ ChildrenRendered
  /\ CanSubmit(uploaderLoading, uploaderUrl = "")
  /\ submits < MaxSubmits
  /\ submits' = submits + 1
  /\ IF currentUser = "none"
       THEN UNCHANGED <<uploaderLoading, uploaderCalls>>
       ELSE /\ uploaderLoading' = TRUE
            /\ uploaderCalls' = uploaderCalls \cup
                 {[id |-> submits + 1, url |-> uploaderUrl, live |-> TRUE]}
  /\ UNCHANGED <<serverVars, currentUser, reported, guardLoading, guardUser,
                 homeAnalysis, homeDocContent, uploaderUrl, chatQuestion,
                 chatLoading, chatHistory, chatCalls>>

\* a mutant of SettleAnalyze: there is no finally, loading is reset on
\* success only
SettleAnalyzeNoFinally(c, outcome) ==
  /\ c \in uploaderCalls
  /\ outcome \in AnalyzeOutcomes(c.url)
  /\ uploaderCalls' = uploaderCalls \ {c}
  /\ IF outcome.kind = "json" /\ outcome.data.success
       THEN LET new == HandleAnalysis(outcome.data, homeAnalysis, homeDocContent)
            IN /\ homeAnalysis' = new.analysis
               /\ homeDocContent' = new.docContent
               /\ uploaderUrl' = IF c.live THEN "" ELSE uploaderUrl
               /\ uploaderLoading' = IF c.live THEN FALSE ELSE uploaderLoading
       ELSE UNCHANGED <<homeAnalysis, homeDocContent, uploaderUrl,
                        uploaderLoading>>
  /\ UNCHANGED <<serverVars, currentUser, reported, guardLoading, guardUser,
                 chatQuestion, chatLoading, chatHistory, chatCalls, submits>>

\* DocUploader.tsx:40-54   the call settled: onAnalysis on success, the
\* toast otherwise, and finally setLoading(false)
SettleAnalyze(c, outcome) ==
  /\ c \in uploaderCalls
  /\ outcome \in AnalyzeOutcomes(c.url)
  /\ uploaderCalls' = uploaderCalls \ {c}
  /\ IF outcome.kind = "json" /\ outcome.data.success
       THEN LET new == HandleAnalysis(outcome.data, homeAnalysis, homeDocContent)
            IN /\ homeAnalysis' = new.analysis
               /\ homeDocContent' = new.docContent
               /\ uploaderUrl' = IF c.live THEN "" ELSE uploaderUrl
       ELSE UNCHANGED <<homeAnalysis, homeDocContent, uploaderUrl>>
  /\ uploaderLoading' = IF c.live THEN FALSE ELSE uploaderLoading
  /\ UNCHANGED <<serverVars, currentUser, reported, guardLoading, guardUser,
                 chatQuestion, chatLoading, chatHistory, chatCalls, submits>>

\* ChatInterface.tsx:145   onChange of the input
TypeQuestion(q) ==
  /\ ChatMounted
  /\ ~chatLoading
  /\ chatQuestion # q
  /\ chatQuestion' = q
  /\ UNCHANGED <<serverVars, currentUser, reported, guardLoading, guardUser,
                 homeAnalysis, homeDocContent, uploaderUrl, uploaderLoading,
                 uploaderCalls, chatLoading, chatHistory, chatCalls, submits>>

\* ChatInterface.tsx:23-58   handleSubmit up to the call of fetch
SubmitChat ==
  /\ ChatMounted
  /\ CanSubmit(chatLoading, Trim(chatQuestion) = <<>>)
  /\ submits < MaxSubmits
  /\ submits' = submits + 1
  /\ IF currentUser = "none" \/ Trim(chatQuestion) = <<>>
       THEN UNCHANGED <<chatLoading, chatHistory, chatCalls>>
       ELSE /\ chatLoading' = TRUE
            /\ chatHistory' = Append(chatHistory,
                 [type |-> "question", content |-> Trim(chatQuestion)])
            /\ chatCalls' = chatCalls \cup
                 {[id |-> submits + 1, question |-> Trim(chatQuestion),
                   live |-> TRUE]}
  /\ UNCHANGED <<serverVars, currentUser, reported, guardLoading, guardUser,
                 homeAnalysis, homeDocContent, uploaderUrl, uploaderLoading,
                 uploaderCalls, chatQuestion>>

\* ChatInterface.tsx:60-88   the call settled: the answer or the apology is
\* added, and finally setLoading(false) and setQuestion('')
SettleChat(c, outcome) ==
  /\ c \in chatCalls
  /\ outcome \in ChatOutcomes
  /\ chatCalls' = chatCalls \ {c}
  /\ IF c.live
       THEN /\ chatHistory' = Append(chatHistory, ChatAnswer(outcome))
            /\ chatLoading' = FALSE
            /\ chatQuestion' = <<>>
       ELSE UNCHANGED <<chatHistory, chatLoading, chatQuestion>>
  /\ UNCHANGED <<serverVars, currentUser, reported, guardLoading, guardUser,
                 homeAnalysis, homeDocContent, uploaderUrl, uploaderLoading,
                 uploaderCalls, submits>>

\* the continuations of the two handlers when their call has settled
Settles ==
  \/ \E c \in uploaderCalls : \E outcome \in AnalyzeOutcomes(c.url) :
       SettleAnalyze(c, outcome)
  \/ \E c \in chatCalls : \E outcome \in ChatOutcomes : SettleChat(c, outcome)

UiNext ==
  \/ SignIn
  \/ SignOut
  \/ AuthCallback
  \/ \E u \in UiUrls \cup {""} : TypeUrl(u)
  \/ SubmitAnalyze
  \/ \E c \in uploaderCalls : \E outcome \in AnalyzeOutcomes(c.url) :
       SettleAnalyze(c, outcome)
  \/ \E q \in Questions : TypeQuestion(q)
  \/ SubmitChat
  \/ \E c \in chatCalls : \E outcome \in ChatOutcomes : SettleChat(c, outcome)

\* the page, with the server up and configured
UiStart == HandlerInit(Reqs) /\ apiKey /\ NormOff /\ UiInit

UiSpec == UiStart /\ [][UiNext]_vars

\* every call of fetch settles, and the observer delivers every change of
\* the user; nothing obliges the user to type, submit or sign in
UiLiveSpec ==
  UiStart /\ [][UiNext]_vars /\ WF_vars(Settles) /\ WF_vars(AuthCallback)

(***************************************************************************)
(* Properties                                                              *)
(***************************************************************************)
\* the url member of the body is an absolute URL with scheme http or https
IsHttpUrl(b) ==
  /\ b.urlType = "string"
  /\ URLParse[b.url].ok
  /\ URLParse[b.url].protocol \in {"http:", "https:"}

\* POST has been entered for the request (the route module is loaded)
Handled(r) == model = "model" /\ pc[r] \notin {"idle", "received"}

\* C1: a request handled by POST whose url is not a valid absolute URL, or
\* whose scheme is not http or https, never has a fetch issued for it, and
\* once past validation it is answered with status 400.
C1_InvalidUrlRejected ==
  \A r \in Reqs :
    (Handled(r) /\ body[r].json /\ ~IsHttpUrl(body[r])) =>
      /\ fetchCalls[r] = 0
      /\ pc[r] \in {"validating", "done"}
      /\ pc[r] = "done" => resp[r].status = 400

C1_Witness ==
  \E r \in Reqs :
    /\ pc[r] = "done"
    /\ body[r].json
    /\ body[r].url = "ftp://example.com/file"
    /\ resp[r].status = 400
    /\ fetchCalls[r] = 0

\* C2: when fetch, extraction and normalization succeeded and the
\* summarization call then fails, the response is 200 with success: true,
\* the normalized content and a placeholder analysis.
C2_SummarizationFailureDegrades ==
  \A r \in Reqs :
    (pc[r] = "done" /\ generation[r] = "rejected") =>
      /\ resp[r].status = 200
      /\ resp[r].success
      /\ resp[r].content = cleanContent[r]
      /\ resp[r].analysis = Placeholder

\* C3: without an API key a valid request is never failed for that reason:
\* it ends in a fetch failure, in insufficient content, or in 200 with
\* success: true, the content and the placeholder, and Summarizing is skipped.
C3_UnconfiguredIsNotFatal ==
  \A r \in Reqs :
    (~apiKey /\ pc[r] = "done" /\ body[r].json /\ IsHttpUrl(body[r])) =>
      /\ generateCalls[r] = 0
      /\ \/ /\ resp[r].status = 200
            /\ resp[r].success
            /\ resp[r].analysis = Placeholder
            /\ resp[r].content = cleanContent[r]
         \/ resp[r].error \in {"Failed to fetch content", "No response received",
                               "Request setup failed", "Insufficient content"}

\* C4: a fetched response whose content type is not HTML is never parsed
\* and never summarized, and the request ends with status 415.
C4_NonHtmlRejected ==
  \A r \in Reqs :
    (response[r].status # 0 /\ response[r].contentType # "text/html") =>
      /\ loads[r] = 0
      /\ generateCalls[r] = 0
      /\ pc[r] = "done" => resp[r].status = 415

\* C5: a failed fetch is answered by its kind: the upstream status (also
\* named in details) when a response was received, 504 when a request was
\* made and no response came, 500 when the request could not be set up.
C5_FetchFailureStatus ==
  \A r \in Reqs :
    fetchError[r].thrown =>
      /\ pc[r] = "done"
      /\ fetchError[r].response =>
           /\ resp[r].status = fetchError[r].status
           /\ resp[r].details.code = fetchError[r].status
      /\ (~fetchError[r].response /\ fetchError[r].request) =>
           resp[r].status = 504
      /\ (~fetchError[r].response /\ ~fetchError[r].request) =>
           resp[r].status = 500

C5_Witness ==
  \E r \in Reqs :
    /\ pc[r] = "done"
    /\ target[r] = "answers"
    /\ fetchError[r].response
    /\ fetchError[r].status = 503
    /\ resp[r].status = 503
    /\ resp[r].details.code = 503

\* C6: normalized content shorter than the minimum ends the request with
\* 422 Insufficient content and without a summarization call; every
\* summarization call is made with content of at least the minimum length.
C6_ShortContentNotSummarized ==
  \A r \in Reqs :
    /\ generateCalls[r] > 0 => Len(cleanContent[r]) >= MinContentLength
    /\ (pc[r] \in {"summarizing", "done"} /\ loads[r] > 0
          /\ Len(cleanContent[r]) < MinContentLength) =>
         /\ pc[r] = "done"
         /\ resp[r].status = 422
         /\ resp[r].error = "Insufficient content"
         /\ generateCalls[r] = 0

\* a selected region longer than the threshold whose cleaned text is too short
C6_Witness ==
  \E r \in Reqs :
    /\ pc[r] = "done"
    /\ Len(mainContent[r]) > SelectThreshold
    /\ Len(cleanContent[r]) = MinContentLength - 1
    /\ resp[r].status = 422
    /\ generateCalls[r] = 0

\* C7: a request without a Bearer credential is answered with 401 and no
\* fetch is ever issued for it.
C7_NoCredentialNoFetch ==
  \A r \in Reqs :
    (Handled(r) /\ ~auth[r]) =>
      /\ fetchCalls[r] = 0
      /\ pc[r] = "done" => resp[r].status = 401

\* C8: the summarization call is bounded by a timer, so a request that
\* waits for the backend always gets its response, also when the backend
\* never settles.
C8_SummarizingEnds ==
  \A r \in Reqs : (pc[r] = "summarizing") ~> (pc[r] = "done")

\* C9: when the target never answers the fetch, the timeout fires and the
\* request ends with status 504; it is never extracted nor summarized.
C9_SilentTargetTimesOut ==
  \A r \in Reqs :
    /\ (pc[r] = "fetching" /\ target[r] = "silent")
         ~> (pc[r] = "done" /\ resp[r].status = 504)
    /\ [](target[r] = "silent" => loads[r] = 0 /\ generateCalls[r] = 0)

C9_Witness ==
  \E r \in Reqs :
    /\ target[r] = "silent"
    /\ pc[r] = "done"
    /\ fetchError[r].thrown
    /\ resp[r].status = 504

\* C10: the extracted text is the text of the first selector, in the fixed
\* order, whose trimmed text is longer than the threshold, whatever the
\* later candidates hold.
C10_FirstQualifyingSelector ==
  \A r \in Reqs :
    loads[r] > 0 =>
      LET doc == RemoveDenylisted(response[r].data)
          text(i) == SelectorText(doc, ContentSelectors[i])
          long(i) == Len(Trim(text(i))) > SelectThreshold
      IN \A i \in 1..Len(ContentSelectors) :
           (long(i) /\ \A j \in 1..(i-1) : ~long(j)) => mainContent[r] = text(i)

\* main is above the threshold, article is too and is longer: main is returned
C10_Witness ==
  \E r \in Reqs :
    /\ loads[r] > 0
    /\ Len(response[r].data) = 2
    /\ response[r].data[1].kind = "article"
    /\ response[r].data[2].kind = "main"
    /\ Len(Trim(response[r].data[2].text)) > SelectThreshold
    /\ Len(response[r].data[1].text) > Len(response[r].data[2].text)
    /\ mainContent[r] = response[r].data[2].text

\* C11: when no candidate selector yields text above the threshold, the
\* extracted text is the full text of body, whatever its length: the text
\* handed to the cleaning chain is the body text, not an empty string.
C11_BodyTextFallback ==
  \A r \in Reqs :
    loads[r] > 0 =>
      LET doc == RemoveDenylisted(response[r].data)
      IN (\A i \in 1..Len(ContentSelectors) :
            ~Qualifies(SelectorText(doc, ContentSelectors[i])))
           => mainContent[r] = SelectorText(doc, "body")

\* C12: cleaning is idempotent: the chain applied to its own result gives
\* that result again.
C12_NormalizeIdempotent ==
  normPc = "twice" => normTwice = normOnce

\* C13: cleaned content holds no whitespace other than single spaces: no
\* two adjacent whitespace characters, no line break.
C13_NoWhitespaceRun ==
  normPc \in {"once", "twice"} =>
    /\ \A i \in 1..Len(normOnce) : IsSpace(normOnce[i]) => normOnce[i] = " "
    /\ \A i \in 1..(Len(normOnce) - 1) :
         ~(IsSpace(normOnce[i]) /\ IsSpace(normOnce[i + 1]))

\* C14: cleaned content is never longer than the maximum, and the cut is
\* the last step: the content is exactly the prefix, of the maximum length
\* at most, of the fully cleaned and trimmed text.
C14_TruncationLast ==
  normPc \in {"once", "twice"} =>
    LET cleaned == Cleaned(normInput)
        n       == IF Len(cleaned) <= MaxContentLength
                     THEN Len(cleaned) ELSE MaxContentLength
    IN /\ Len(normOnce) <= MaxContentLength
       /\ Len(normOnce) = n
       /\ normOnce = SubSeq(cleaned, 1, n)

\* the cut falls after a space, and the space stays at the end
C14_Witness ==
  /\ normPc = "once"
  /\ Len(Cleaned(normInput)) > MaxContentLength
  /\ Len(normOnce) = MaxContentLength
  /\ normOnce[MaxContentLength] = " "

\* C15: the fetch fails only when no response was received (connection
\* failure, timeout, too many redirects): a fetch that received an HTTP
\* response, 4xx included, never throws, and the request goes on to
\* extraction.
C15_ResponseReceivedIsNotFatal ==
  \A r \in Reqs :
    /\ fetchError[r].thrown => ~fetchError[r].response
    /\ response[r].status # 0 => pc[r] # "fetching"

\* C16: no stage is retried: one request makes at most one outbound fetch
\* and at most one summarization call, and a failure of either is the
\* response of that request, with no second attempt.
C16_NoRetry ==
  \A r \in Reqs :
    /\ fetchCalls[r] <= 1
    /\ generateCalls[r] <= 1
    /\ fetchError[r].thrown =>
         /\ pc[r] = "done"
         /\ fetchCalls[r] = 1
         /\ ~resp[r].success
         /\ resp[r].error \in {"Failed to fetch content", "No response received",
                               "Request setup failed"}
    /\ generation[r] = "rejected" =>
         /\ pc[r] = "done"
         /\ generateCalls[r] = 1
         /\ ~resp[r].success
         /\ resp[r].error = "Analysis failed"

\* both calls were made once and the summarization failed
C16_Witness ==
  \E r \in Reqs :
    /\ pc[r] = "done"
    /\ fetchCalls[r] = 1
    /\ generateCalls[r] = 1
    /\ generation[r] = "rejected"
    /\ resp[r].status = 500

\* C17: every success response carries metadata with the url of the
\* request, a contentLength equal to the length of the returned content, a
\* timestamp and the processing time.
C17_SuccessMetadata ==
  \A r \in Reqs :
    (pc[r] = "done" /\ resp[r].success) =>
      /\ {"url", "timestamp", "processingTime", "contentLength"}
           \subseteq resp[r].metadata.keys
      /\ resp[r].metadata.url = body[r].url
      /\ resp[r].metadata.contentLength = Len(resp[r].content)

\* C18: the response follows from the kind of outcome: status 200 exactly
\* when the body has success: true and the content; a validation failure is
\* 400, insufficient content 422, a target that does not respond 504, an
\* unexpected failure 500; every other status than 200 comes with an error
\* string and never with success: true.
C18_StatusByOutcome ==
  \A r \in Reqs :
    (Handled(r) /\ pc[r] = "done") =>
      /\ resp[r].status = 200 <=> resp[r].success
      /\ resp[r].success =>
           /\ resp[r].content = cleanContent[r]
           /\ resp[r].content # <<>>
           /\ resp[r].error = ""
      /\ (~body[r].json \/ ~IsHttpUrl(body[r])) => resp[r].status = 400
      /\ (loads[r] > 0 /\ Len(cleanContent[r]) < MinContentLength) =>
           resp[r].status = 422
      /\ (fetchError[r].thrown /\ fetchError[r].request
            /\ ~fetchError[r].response) => resp[r].status = 504
      /\ unexpected[r] => resp[r].status = 500
      /\ resp[r].status # 200 => (resp[r].error # "" /\ ~resp[r].success)

\* a request that ended with 200, success: true and the cleaned content
C18_Witness ==
  \E r \in Reqs :
    /\ pc[r] = "done"
    /\ resp[r].status = 200
    /\ resp[r].success
    /\ Len(resp[r].content) >= MinContentLength
    /\ generation[r] = "resolved"

\* everything the handler holds for one request
RequestState(r) ==
  <<pc[r], auth[r], body[r], url[r], target[r], response[r], fetchError[r],
    mainContent[r], cleanContent[r], backend[r], generation[r], resp[r],
    fetchCalls[r], loads[r], generateCalls[r], unexpected[r]>>

\* POST run from its first line to its return for one request, given what
\* the fetch and the summarization call did for it
ResponseAlone(b, err, fetched, threw, gen) ==
  IF ~b.json
    THEN ErrorResponse(400, "Invalid request body",
                       [text |-> "parseError", code |-> 0], "")
  ELSE IF ~RequestSchema(b)
    THEN ErrorResponse(400, "URL Validation Failed",
                       [text |-> "validationResult.error.errors",
                        code |-> 0], "")
  ELSE IF err.thrown
    THEN FetchErrorResponse(err, b.url, "")
  ELSE IF threw
    THEN ErrorResponse(500, "Internal server error",
                       [text |-> "unexpectedError.message", code |-> 0], "")
  ELSE LET clean == CleanContent(SelectMainContent(RemoveDenylisted(fetched.data)))
       IN IF Insufficient(clean)
            THEN ErrorResponse(422, "Insufficient content",
                               [text |-> "Unable to extract meaningful text",
                                code |-> 0], b.url)
          ELSE IF gen = "resolved"
            THEN SuccessResponse("generated", clean, b.url)
            ELSE ErrorResponse(500, "Analysis failed",
                               [text |-> "analysisError.message", code |-> 0],
                               b.url)

\* what the claim compares of a response
Observed(answer) ==
  [status |-> answer.status, content |-> answer.content,
   analysis |-> answer.analysis, url |-> answer.metadata.url]

\* C19: requests are independent: however the steps of two concurrent
\* requests interleave, the response of each (status, content, analysis,
\* metadata.url) is the one it gets when handled alone with the same fetch
\* and summarization results, and no step of one request writes a value of
\* the other.
C19_RequestsIndependent ==
  /\ [](\A r \in DOMAIN pc :
          (model = "model" /\ pc[r] = "done") =>
            Observed(resp[r]) =
              Observed(ResponseAlone(body[r], fetchError[r], response[r],
                                     unexpected[r], generation[r])))
  /\ [][/\ model' = model
        /\ \A r, q \in DOMAIN pc :
             (r # q /\ RequestState(r)' # RequestState(r)) =>
               RequestState(q)' = RequestState(q)]_vars

\* one request got its 200 while the other, for another url and another
\* page, is between cleaning and summarization
C19_Witness ==
  /\ DOMAIN pc = ConcReqs
  /\ pc["r1"] = "done"
  /\ resp["r1"].status = 200
  /\ pc["r2"] = "checking"
  /\ cleanContent["r2"] # <<>>
  /\ cleanContent["r2"] # cleanContent["r1"]
  /\ body["r2"].url # body["r1"].url

\* the positions of a request in the order the handler goes through them:
\* received and validating are the stage Validating, normalizing and
\* checking the stage Normalizing, done is Responding or Failed
StageOrder ==
  <<"idle", "received", "validating", "fetching", "extracting", "normalizing",
    "checking", "summarizing", "done">>

StageRank(p) == CHOOSE i \in 1..Len(StageOrder) : StageOrder[i] = p

\* C20: within one request the stages occur only in the order Validating,
\* Fetching, Extracting, Normalizing, Summarizing (optional), Responding:
\* every step goes to the next stage or to the end, a response with
\* success: true is sent only from the last stages, no stage is entered
\* again, and after the response nothing further runs.
C20_StageOrder ==
  [][\A r \in Reqs :
       pc'[r] # pc[r] =>
         /\ pc[r] # "done"
         /\ \/ StageRank(pc'[r]) = StageRank(pc[r]) + 1
            \/ /\ pc'[r] = "done"
               /\ pc[r] # "idle"
               /\ resp'[r].status # 0
               /\ resp'[r].success => pc[r] \in {"checking", "summarizing"}]_vars

\* every stage was gone through once and the summarization call is pending
C20_Witness ==
  \E r \in Reqs :
    /\ pc[r] = "summarizing"
    /\ fetchCalls[r] = 1
    /\ loads[r] = 1
    /\ generateCalls[r] = 1
    /\ Len(cleanContent[r]) >= MinContentLength

\* the denylist the claim names: that of the handler, and the cookie banner
ClaimedDenylist == Denylist \cup {".cookie-banner"}

\* C21: denylisted nodes (script, style, embedded media, navigation,
\* header, footer, sidebars, advertisement and cookie-banner markers,
\* comment sections) are removed before any selector is evaluated: the
\* extracted text is empty or is the text of the nodes one selector matches
\* among the nodes that are not denylisted.
C21_DenylistedTextRemoved ==
  \A r \in Reqs :
    loads[r] > 0 =>
      LET kept == SelectSeq(response[r].data,
                            LAMBDA n : n.kind \notin ClaimedDenylist)
      IN \/ mainContent[r] = <<>>
         \/ \E i \in 1..Len(ContentSelectors) :
              mainContent[r] = SelectorText(kept, ContentSelectors[i])

\* C22: an exception that no stage maps itself is caught by the handler:
\* the request is answered with status 500 and the error 'Internal server
\* error', in the step that raised it, and is not left without a response.
C22_UnexpectedErrorIs500 ==
  \A r \in Reqs :
    unexpected[r] =>
      /\ pc[r] = "done"
      /\ resp[r].status = 500
      /\ resp[r].error = "Internal server error"
      /\ ~resp[r].success
      /\ generateCalls[r] = 0

\* the parser threw on the object of a JSON body
C22_Witness ==
  \E r \in Reqs :
    /\ unexpected[r]
    /\ response[r].contentType = "application/json"
    /\ loads[r] = 0
    /\ pc[r] = "done"
    /\ resp[r].error = "Internal server error"

\* C23: the selector is chosen on the length of its trimmed raw text and
\* the choice is final: when the text of the first selector above the
\* threshold cleans to fewer characters than the minimum, the request ends
\* with 422 and without a summarization call, also when a later selector
\* would clean to enough; the length is checked once, after cleaning.
C23_SelectorChoiceFinal ==
  \A r \in Reqs :
    (loads[r] > 0 /\ pc[r] \in {"summarizing", "done"}) =>
      LET doc == RemoveDenylisted(response[r].data)
          raw(i) == SelectorText(doc, ContentSelectors[i])
      IN \A i \in 1..Len(ContentSelectors) :
           ( /\ Qualifies(raw(i))
             /\ \A j \in 1..(i-1) : ~Qualifies(raw(j))
             /\ Len(CleanContent(raw(i))) < MinContentLength ) =>
               /\ mainContent[r] = raw(i)
               /\ pc[r] = "done"
               /\ resp[r].status = 422
               /\ generateCalls[r] = 0

\* main is above the threshold and cleans to 49 characters; article, later
\* in the list, would clean to 51: the answer is 422
C23_Witness ==
  \E r \in Reqs :
    /\ pc[r] = "done"
    /\ resp[r].status = 422
    /\ Len(mainContent[r]) > SelectThreshold
    /\ Len(cleanContent[r]) < MinContentLength
    /\ mainContent[r] = SelectorText(RemoveDenylisted(response[r].data), "main")
    /\ Len(CleanContent(SelectorText(RemoveDenylisted(response[r].data),
                                     "article"))) >= MinContentLength

\* C24: a request whose body is not JSON is answered with status 400
\* 'Invalid request body'; no fetch and no summarization call is made for it.
C24_UnparsableBodyRejected ==
  \A r \in Reqs :
    (model = "model" /\ pc[r] # "idle" /\ ~body[r].json) =>
      /\ fetchCalls[r] = 0
      /\ generateCalls[r] = 0
      /\ pc[r] \in {"received", "done"}
      /\ pc[r] = "done" =>
           /\ resp[r].status = 400
           /\ resp[r].error = "Invalid request body"

C24_Witness ==
  \E r \in Reqs :
    /\ model = "model"
    /\ ~body[r].json
    /\ pc[r] = "done"
    /\ resp[r].error = "Invalid request body"
    /\ fetchCalls[r] = 0

\* C25: on the Home page the displayed analysis and the docContent given
\* to the chat come from the same analysis response, after any sequence of
\* successful and failed analyses: both are empty or both are those of one
\* url, and every step that changes one of them sets both from the response
\* of the call that settled.
C25_AnalysisAndContentAgree ==
  /\ [](\/ homeAnalysis = "" /\ homeDocContent = <<>>
        \/ \E u \in UiUrls :
             homeAnalysis = AnalysisOf(u) /\ homeDocContent = ContentOf(u))
  /\ [][(homeAnalysis' # homeAnalysis \/ homeDocContent' # homeDocContent) =>
          \E c \in uploaderCalls \ uploaderCalls' :
            /\ homeAnalysis' = AnalysisOf(c.url)
            /\ homeDocContent' = ContentOf(c.url)]_vars

\* the analysis of one url is displayed while the call for the other url
\* has not settled
C25_Witness ==
  /\ homeAnalysis = AnalysisOf("https://example.com/docs")
  /\ homeDocContent = ContentOf("https://example.com/docs")
  /\ \E c \in uploaderCalls : c.url = "http://example.com/" /\ c.live

\* the entries of the history alternate question, answer, from a question on
Alternates(history) ==
  \A i \in 1..Len(history) :
    history[i].type = IF i % 2 = 1 THEN "question" ELSE "answer"

\* C26: chatHistory alternates question, answer: once every submission has
\* settled each question is followed by exactly one answer (the response of
\* the model, or the fixed apology on any error) before the next question,
\* and while the component is mounted no entry is removed or reordered.
C26_HistoryAlternates ==
  /\ [](/\ Alternates(chatHistory)
        /\ (\A c \in chatCalls : ~c.live) => Len(chatHistory) % 2 = 0
        /\ (\E c \in chatCalls : c.live) => Len(chatHistory) % 2 = 1)
  /\ [][ChatMounted' =>
          /\ Len(chatHistory') >= Len(chatHistory)
          /\ SubSeq(chatHistory', 1, Len(chatHistory)) = chatHistory]_vars

\* two questions were asked; the first call failed and the second succeeded
C26_Witness ==
  /\ Len(chatHistory) = 4
  /\ chatHistory[2] = ChatAnswer("throws")
  /\ chatHistory[4] = ChatAnswer("success")
  /\ chatCalls = {}

\* the calls of a form that belong to the mounted component
Live(calls) == {c \in calls : c.live}

\* C27: at most one request per form is in flight: while loading is true
\* for DocUploader or ChatInterface, no submission of that form starts a
\* new HTTP call, however submit events and response arrivals interleave.
C27_OneCallPerForm ==
  /\ [](/\ Cardinality(Live(uploaderCalls)) <= 1
        /\ Cardinality(Live(chatCalls)) <= 1
        /\ uploaderLoading <=> Live(uploaderCalls) # {}
        /\ chatLoading <=> Live(chatCalls) # {})
  /\ [][/\ uploaderLoading =>
             {c.id : c \in uploaderCalls'} \subseteq {c.id : c \in uploaderCalls}
        /\ chatLoading =>
             {c.id : c \in chatCalls'} \subseteq {c.id : c \in chatCalls}]_vars

\* the chat waits for its call with a question still in its input, and the
\* bound on submit events is not reached: a submit event is what is left out
C27_Witness ==
  /\ chatLoading
  /\ Cardinality(chatCalls) = 1
  /\ chatQuestion = <<"q">>
  /\ ~uploaderLoading
  /\ submits < MaxSubmits

\* C28: every submission that sets loading to true sets it back to false
\* when its call settles, whether the call succeeds, returns an error body,
\* returns a body that is not JSON, or throws; a submission by a signed-out
\* user never sets loading and sends no request.
C28_LoadingReset ==
  /\ uploaderLoading ~> ~uploaderLoading
  /\ chatLoading ~> ~chatLoading
  /\ [][/\ \A c \in Live(uploaderCalls) :
             c.id \notin {d.id : d \in uploaderCalls'} => ~uploaderLoading'
        /\ \A c \in Live(chatCalls) :
             c.id \notin {d.id : d \in chatCalls'} => ~chatLoading'
        /\ (submits' # submits /\ currentUser = "none") =>
             UNCHANGED <<uploaderLoading, uploaderCalls, chatLoading,
                         chatCalls, chatHistory>>]_vars

\* a question was asked, its call failed, and the form is usable again
C28_Witness ==
  /\ Len(chatHistory) = 2
  /\ chatHistory[2] = ChatAnswer("not json")
  /\ ~chatLoading
  /\ chatCalls = {}
  /\ ~uploaderLoading

\* C29: AuthGuard renders its children only when the auth observer has
\* reported a user: before the first callback it shows neither the children
\* nor the sign-in page, and after a callback that reported null the
\* children are not rendered.
C29_ChildrenOnlyForUser ==
  /\ ChildrenRendered => (reported.once /\ reported.last = "user")
  /\ ~reported.once => GuardView(guardLoading, guardUser) = "spinner"
  /\ (reported.once /\ reported.last = "none") =>
       GuardView(guardLoading, guardUser) = "sign-in page"

\* a user analyzed a page and then signed out: the sign-in page is shown
C29_Witness ==
  /\ reported.once
  /\ reported.last = "none"
  /\ homeAnalysis # ""
  /\ GuardView(guardLoading, guardUser) = "sign-in page"

====
